---------------------------- MODULE Spec2Model ----------------------------
(***************************************************************************)
(* MoveGroupHelper (ros/src/messtechnik_praktikum/scripts/helper.py): the  *)
(* probing sequencer of the Helene arm.  The helper drives two external    *)
(* services: the planning scene (add/remove of the solid and the hollow    *)
(* cylinder, applied asynchronously) and the move group (path constraints, *)
(* velocity/acceleration scaling, Cartesian planning, execution).          *)
(*                                                                         *)
(* Units.  Time is counted in ticks of one poll interval (0.1 s), so a      *)
(* timeout of t seconds is t * TicksPerSecond ticks.  Scaling factors are  *)
(* in percent (0.01 -> 1, 0.1 -> 10, 0.8 -> 80, 1 -> 100).  Lengths are in *)
(* centimetres (0.30 m -> 30, -0.06 m -> -6).                              *)
(***************************************************************************)
EXTENDS Integers, Sequences, FiniteSets, TLC

VARIABLES
    pc,                     \* position of the caller's thread inside the helper
    calls,                  \* number of public calls begun so far
    op,                     \* the public call in progress / most recently made
    prevOp,                 \* the public call made before op
    outcome,                \* how op ended: "running", "returned" or the exception
    known,                  \* scene: get_known_object_names()
    pending,                \* scene: requests published but not yet applied
    shutdown,               \* rospy.is_shutdown()
    path_constraints,       \* move group: active path constraints
    cartesian_constraints,  \* self.cartesian_constraints
    velocity_scaling,       \* move group: max velocity scaling factor (percent)
    acceleration_scaling,   \* move group: max acceleration scaling factor (percent)
    pose,                   \* move group: current end effector pose
    wait,                   \* the frame of __wait_for_state_update
    log,                    \* service calls issued by op, in order
    polled,                 \* names a poll of op has observed as known
    ret,                    \* return values of the scene helpers called by op
    conv,                   \* outcome of each scene helper's convergence wait
    request,                \* arguments of the last compute_cartesian_path call
    plan,                   \* the (plan, fraction) last returned by plan_probing
    planCall,               \* the last plan_probing call: depth and pose it started from
    prevPlanCall,           \* the plan_probing call before it, when op and prevOp are both plan_probing
    entry,                  \* what was in force when op began
    mode,                   \* ProbingState of the design: "Idle" or "Probing"
    timely                  \* every convergence wait so far has seen the scene change it waited for

vars == <<pc, calls, op, prevOp, outcome, known, pending, shutdown,
          path_constraints, cartesian_constraints, velocity_scaling,
          acceleration_scaling, pose, wait, log, polled, ret, conv,
          request, plan, planCall, prevPlanCall, entry, mode, timely>>

---------------------------------------------------------------------------
(* Bounds of the model *)

\* public calls made in one run
MaxCalls == 2

\* largest timeout (seconds) handed to a direct call of the wait primitive
MaxWaitTimeout == 1

---------------------------------------------------------------------------
(* Program constants *)

\* rospy.sleep(0.1): ten polls per second
TicksPerSecond == 10

\* rospy.sleep(0.1): one tick between two polls
SleepTicks == 1

\* __wait_for_state_update(..., timeout=4)
DefaultTimeout == 4

\* __add_cylinder(self, timeout=10)
AddCylinderTimeout == 10

\* __remove_cylinder(self, timeout=4)
RemoveCylinderTimeout == 4

\* __remove_hollow_cylinder: the last wait's timeout=4
RemoveHollowTimeout == 4

\* enable_probing: set_max_velocity_scaling_factor(0.01)
ProbingVelocity == 1

\* enable_probing: set_max_acceleration_scaling_factor(0.1)
ProbingAcceleration == 10

\* disable_probing: set_max_velocity_scaling_factor(0.8)
NormalVelocity == 80

\* disable_probing: set_max_acceleration_scaling_factor(1)
NormalAcceleration == 100

\* student_script: helene.set_speed_scaler(1)
FullSpeed == 100

\* compute_cartesian_path(waypoints, 0.01, ...): eef_step, in cm
EefStep == 1

\* compute_cartesian_path(waypoints, 0.01, 0.0, ...): jump_threshold
JumpThreshold == 0

cylinder_name == "full_cylinder"

hollow_cylinder_name == "hollow_cylinder"

Names == {cylinder_name, hollow_cylinder_name}

---------------------------------------------------------------------------
(* Values *)

\* the unset attribute, Python's None, and the three results a helper can hand back
Unset == [kind |-> "unset"]

None == [kind |-> "None"]

NoWait == [name |-> "", expected |-> FALSE, timeout |-> 0, elapsed |-> 0,
           phase |-> "off", result |-> "none", matched |-> FALSE, polls |-> 0,
           atCall |-> FALSE]

NoRet == [add_cylinder |-> "unset", remove_cylinder |-> "unset",
          add_hollow_cylinder |-> "unset", remove_hollow_cylinder |-> "unset"]

NoPlanCall == [made |-> FALSE, z |-> 0, from |-> 0, planned |-> FALSE]

NoRequest == [made |-> FALSE, waypoints |-> <<>>, eef_step |-> 0,
              jump_threshold |-> 0, path_constraints |-> None]

NoPlan == [made |-> FALSE, start |-> 0, end |-> 0, fraction |-> 0]

\* quaternions are <<x, y, z, w>>
Identity == <<0, 0, 0, 1>>

\* orientations the end effector may have at start-up
Orientations == {Identity, <<0, 1, 0, 0>>}

\* the base link axis_0 is the root of the planning frame
BaseOrientation == Identity

\* poses the robot may be in when the helper is constructed
StartPoses == {[x |-> 25, y |-> 0, z |-> 30, o |-> q] : q \in Orientations}

\* depths the caller asks for: the default -0.1, and the -0.06 and 0.06 of main()
Depths == {-10, -6, 6}

\* fractions (percent) the Cartesian planner may report
Fractions == {0, 100}

Call(c, a) == [call |-> c, arg |-> a]

---------------------------------------------------------------------------
(* tf.transformations.quaternion_multiply(quaternion1, quaternion0) *)
quaternion_multiply(q1, q0) ==
    LET x1 == q1[1]  y1 == q1[2]  z1 == q1[3]  w1 == q1[4]
        x0 == q0[1]  y0 == q0[2]  z0 == q0[3]  w0 == q0[4]
    IN  << x1*w0 + y1*z0 - z1*y0 + w1*x0,
           (0 - x1)*z0 + y1*w0 + z1*x0 + w1*y0,
           x1*y0 - y1*x0 + z1*w0 + w1*z0,
           (0 - x1)*x0 - y1*y0 - z1*z0 + w1*w0 >>

\* move_group.get_current_pose(link).pose.orientation
LinkOrientation(link, p) ==
    IF link = "axis_6" THEN p.o ELSE BaseOrientation

get_relative_orientation(target_link_name, reference_link_name, p) ==
    LET reference_orientation == LinkOrientation(target_link_name, p)
        reference_orientation_inverted ==
            << reference_orientation[1], reference_orientation[2],
               reference_orientation[3], 0 - reference_orientation[4] >>
        target_orientation == LinkOrientation(reference_link_name, p)
    IN  quaternion_multiply(reference_orientation_inverted, target_orientation)

get_orientation_constraints(p) ==
    [link_name |-> "axis_6", frame_id |-> "axis_0",
     orientation |-> get_relative_orientation("axis_6", "axis_0", p),
     tolerance |-> <<10, 10, 10>>, weight |-> 100]

get_position_constraints ==
    [link_name |-> "axis_6", frame_id |-> "axis_0",
     target_point_offset_z |-> 50,
     region |-> [type |-> "CYLINDER", height |-> 100, radius |-> 1]]

\* the Constraints message __apply_constraints builds
BuildConstraints(p) ==
    [kind |-> "Constraints",
     orientation_constraints |-> <<get_orientation_constraints(p)>>,
     position_constraints |-> <<get_position_constraints>>]

---------------------------------------------------------------------------
(* __wait_for_state_update *)

\* faulty variant: the loop test lets a poll happen when the budget is just used up
LoopConditionInclusive(elapsed, timeout, is_shutdown) ==
    (elapsed <= timeout) /\ ~is_shutdown

\* faulty variant: the loop test forgets the timeout
LoopConditionNoTimeout(elapsed, timeout, is_shutdown) ==
    ~is_shutdown

\* while (seconds - start < timeout) and not rospy.is_shutdown()
LoopCondition(elapsed, timeout, is_shutdown) ==
    (elapsed < timeout) /\ ~is_shutdown

\* if cylinder_is_known == is_known
InExpectedState(cylinder_is_known, is_known) ==
    cylinder_is_known = is_known

\* the frame of a call that has just read start and seconds
StartWait(name, cylinder_is_known, timeout) ==
    [name |-> name, expected |-> cylinder_is_known,
     timeout |-> timeout * TicksPerSecond, elapsed |-> 0,
     phase |-> "test", result |-> "none", matched |-> FALSE, polls |-> 0,
     atCall |-> ((name \in known) = cylinder_is_known)]

Waiting == pc # "idle"

\* how a finished wait ended: it saw the expected state, ran out of time, or
\* left the loop because of shutdown
WaitOutcome(w) ==
    IF w.result = "True" THEN "True"
    ELSE IF w.elapsed >= w.timeout THEN "TimedOut" ELSE "Shutdown"

WaitDone == wait.phase = "done"


\* one turn of the loop: the loop test, the membership test, the comparison
\* and, when the state is not the expected one, the sleep and the clock read
WaitPoll ==
    /\ Waiting
    /\ wait.phase = "test"
    /\ LET is_known == wait.name \in known
       IN  IF LoopCondition(wait.elapsed, wait.timeout, shutdown)
           THEN /\ wait' = [wait EXCEPT
                      !.polls = @ + 1,
                      !.matched = @ \/ ((is_known = wait.expected)
                                         /\ wait.elapsed < wait.timeout),
                      !.phase = IF InExpectedState(wait.expected, is_known)
                                THEN "done" ELSE "test",
                      !.result = IF InExpectedState(wait.expected, is_known)
                                 THEN "True" ELSE "none",
                      !.elapsed = IF InExpectedState(wait.expected, is_known)
                                  THEN @ ELSE @ + SleepTicks]
                /\ polled' = IF is_known THEN polled \cup {wait.name} ELSE polled
           ELSE /\ wait' = [wait EXCEPT !.phase = "done", !.result = "False"]
                /\ UNCHANGED polled
    /\ UNCHANGED <<pc, calls, op, prevOp, outcome, known, pending, shutdown,
                   path_constraints, cartesian_constraints, velocity_scaling,
                   acceleration_scaling, pose, log, ret, conv, request, plan,
                   planCall, prevPlanCall, entry, mode,
                   timely>>

\* rospy.sleep raises ROSInterruptException when shutdown is signalled while
\* it sleeps: nothing in the helper catches it, so the public call in progress
\* is abandoned where it stands
WaitInterrupted ==
    /\ Waiting
    /\ wait.phase = "test"
    /\ wait.polls > 0
    /\ shutdown
    /\ wait' = NoWait
    /\ pc' = "idle"
    /\ outcome' = "ROSInterruptException"
    /\ UNCHANGED <<calls, op, prevOp, known, pending, shutdown,
                   path_constraints, cartesian_constraints, velocity_scaling,
                   acceleration_scaling, pose, log, polled, ret, conv, request,
                   plan, planCall, prevPlanCall, entry, mode,
                   timely>>

---------------------------------------------------------------------------
(* The environment *)

\* the planning scene applies the oldest published request
ApplyRequest(objects, r) ==
    CASE r.call = "add"    -> objects \cup {r.arg}
      [] r.call = "remove" -> objects \ {r.arg}
      [] OTHER             -> objects

SceneApply ==
    /\ pending # <<>>
    /\ known' = ApplyRequest(known, Head(pending))
    /\ pending' = Tail(pending)
    /\ UNCHANGED <<pc, calls, op, prevOp, outcome, shutdown, path_constraints,
                   cartesian_constraints, velocity_scaling, acceleration_scaling,
                   pose, wait, log, polled, ret, conv, request, plan, planCall,
                   prevPlanCall, entry, mode,
                   timely>>

\* the middleware signals shutdown
Shutdown ==
    /\ ~shutdown
    /\ shutdown' = TRUE
    /\ UNCHANGED <<pc, calls, op, prevOp, outcome, known, pending,
                   path_constraints, cartesian_constraints, velocity_scaling,
                   acceleration_scaling, pose, wait, log, polled, ret, conv,
                   request, plan, planCall, prevPlanCall, entry, mode,
                   timely>>

---------------------------------------------------------------------------
(* Public calls *)

\* what every public call does on entry
Begin(name) ==
    /\ pc = "idle"
    /\ calls < MaxCalls
    /\ calls' = calls + 1
    /\ op' = name
    /\ prevOp' = op
    /\ entry' = [mode |-> mode, velocity |-> velocity_scaling,
                 acceleration |-> acceleration_scaling,
                 path_constraints |-> path_constraints,
                 prevVelocity |-> entry.velocity,
                 prevAcceleration |-> entry.acceleration,
                 prevOutcome |-> outcome]
    /\ polled' = {}
    /\ ret' = NoRet
    /\ conv' = NoRet


\* __apply_constraints, then __add_hollow_cylinder up to its wait
EnableProbing ==
    /\ Begin("enable_probing")
    /\ outcome' = "running"
    /\ path_constraints' = BuildConstraints(pose)
    /\ cartesian_constraints' = BuildConstraints(pose)
    /\ pending' = Append(pending, Call("add", hollow_cylinder_name))
    /\ log' = << Call("set_path_constraints", "Constraints"),
                 Call("add_mesh", hollow_cylinder_name) >>
    /\ wait' = StartWait(hollow_cylinder_name, TRUE, DefaultTimeout)
    /\ pc' = "enable_add_hollow"
    /\ UNCHANGED <<known, shutdown, velocity_scaling, acceleration_scaling,
                   pose, request, plan, planCall, prevPlanCall, mode,
                   timely>>

\* __add_hollow_cylinder returns (nothing); __remove_cylinder starts with its
\* wait for the solid cylinder to be known
EnableRemoveCylinder ==
    /\ pc = "enable_add_hollow"
    /\ WaitDone
    /\ ret' = [ret EXCEPT !.add_hollow_cylinder = "None"]
    /\ conv' = [conv EXCEPT !.add_hollow_cylinder = WaitOutcome(wait)]
    /\ wait' = StartWait(cylinder_name, TRUE, RemoveCylinderTimeout)
    /\ pc' = "enable_remove_wait_known"
    /\ timely' = (timely /\ WaitOutcome(wait) = "True")
    /\ UNCHANGED <<calls, op, prevOp, outcome, known, pending, shutdown,
                   path_constraints, cartesian_constraints, velocity_scaling,
                   acceleration_scaling, pose, log, polled, request, plan,
                   planCall, prevPlanCall, entry, mode>>

\* faulty variant: __remove_cylinder clears the hollow cylinder as well
RemoveCylinderRequestsBoth ==
    << Call("detach", cylinder_name), Call("remove", cylinder_name),
       Call("remove", hollow_cylinder_name) >>

\* what __remove_cylinder asks of the scene: remove_attached_object(name=
\* cylinder_name), then remove_world_object(cylinder_name)
RemoveCylinderRequests ==
    << Call("detach", cylinder_name), Call("remove", cylinder_name) >>

\* __remove_cylinder: the two remove calls, then the wait for the update
EnableRemoveCylinderIssue ==
    /\ pc = "enable_remove_wait_known"
    /\ WaitDone
    /\ pending' = pending \o RemoveCylinderRequests
    /\ log' = log \o << Call("remove_attached_object", cylinder_name),
                        Call("remove_world_object", cylinder_name) >>
    /\ wait' = StartWait(cylinder_name, FALSE, RemoveCylinderTimeout)
    /\ pc' = "enable_remove_wait_gone"
    /\ timely' = (timely /\ WaitOutcome(wait) = "True")
    /\ UNCHANGED <<calls, op, prevOp, outcome, known, shutdown,
                   path_constraints, cartesian_constraints, velocity_scaling,
                   acceleration_scaling, pose, polled, ret, conv, request, plan,
                   planCall, prevPlanCall, entry, mode>>

\* __remove_cylinder returns its last wait's result; the slower speed is set
EnableFinish ==
    /\ pc = "enable_remove_wait_gone"
    /\ WaitDone
    /\ ret' = [ret EXCEPT !.remove_cylinder = wait.result]
    /\ conv' = [conv EXCEPT !.remove_cylinder = WaitOutcome(wait)]
    /\ velocity_scaling' = ProbingVelocity
    /\ acceleration_scaling' = ProbingAcceleration
    /\ log' = log \o << Call("set_max_velocity_scaling_factor", "0.01"),
                        Call("set_max_acceleration_scaling_factor", "0.1") >>
    /\ wait' = NoWait
    /\ mode' = "Probing"
    /\ outcome' = "returned"
    /\ pc' = "idle"
    /\ timely' = (timely /\ WaitOutcome(wait) = "True")
    /\ UNCHANGED <<calls, op, prevOp, known, pending, shutdown,
                   path_constraints, cartesian_constraints, pose, polled,
                   request, plan, planCall, prevPlanCall, entry>>

\* __add_cylinder up to its wait
DisableProbing ==
    /\ Begin("disable_probing")
    /\ outcome' = "running"
    /\ pending' = Append(pending, Call("add", cylinder_name))
    /\ log' = << Call("add_cylinder", cylinder_name) >>
    /\ wait' = StartWait(cylinder_name, TRUE, AddCylinderTimeout)
    /\ pc' = "disable_add_cylinder"
    /\ UNCHANGED <<known, shutdown, path_constraints, cartesian_constraints,
                   velocity_scaling, acceleration_scaling, pose, request, plan,
                   planCall, prevPlanCall, mode,
                   timely>>

\* __add_cylinder returns its wait's result; __remove_hollow_cylinder removes
\* the hollow cylinder and waits for it to be gone
DisableRemoveHollow ==
    /\ pc = "disable_add_cylinder"
    /\ WaitDone
    /\ ret' = [ret EXCEPT !.add_cylinder = wait.result]
    /\ conv' = [conv EXCEPT !.add_cylinder = WaitOutcome(wait)]
    /\ pending' = Append(pending, Call("remove", hollow_cylinder_name))
    /\ log' = Append(log, Call("remove_world_object", hollow_cylinder_name))
    /\ wait' = StartWait(hollow_cylinder_name, FALSE, DefaultTimeout)
    /\ pc' = "disable_remove_hollow"
    /\ timely' = (timely /\ WaitOutcome(wait) = "True")
    /\ UNCHANGED <<calls, op, prevOp, outcome, known, shutdown,
                   path_constraints, cartesian_constraints, velocity_scaling,
                   acceleration_scaling, pose, polled, request, plan, planCall,
                   prevPlanCall, entry, mode>>

\* the name the last wait of __remove_hollow_cylinder polls for
RemoveHollowLastWaitName == cylinder_name

\* __remove_hollow_cylinder: its second wait
DisableRemoveHollowLastWait ==
    /\ pc = "disable_remove_hollow"
    /\ WaitDone
    /\ conv' = [conv EXCEPT !.remove_hollow_cylinder = WaitOutcome(wait)]
    /\ wait' = StartWait(RemoveHollowLastWaitName, FALSE, RemoveHollowTimeout)
    /\ pc' = "disable_remove_hollow_last"
    /\ timely' = (timely /\ WaitOutcome(wait) = "True")
    /\ UNCHANGED <<calls, op, prevOp, outcome, known, pending, shutdown,
                   path_constraints, cartesian_constraints, velocity_scaling,
                   acceleration_scaling, pose, log, polled, ret, request, plan,
                   planCall, prevPlanCall, entry, mode>>

\* faulty variant: disable_probing leaves the velocity factor it finds
DisableVelocityKept(before) == before

\* the factors disable_probing sets
DisableVelocity(before) == NormalVelocity

\* faulty variant: disable_probing leaves the acceleration factor it finds
DisableAccelerationKept(before) == before

DisableAcceleration(before) == NormalAcceleration

\* faulty variant: __clear_constraints forgets the move group
PathConstraintsKept(active) == active

\* __clear_constraints: self.move_group.clear_path_constraints()
ClearedPathConstraints(active) == None

\* __remove_hollow_cylinder returns its last wait's result; __clear_constraints;
\* the normal speed is set
DisableFinish ==
    /\ pc = "disable_remove_hollow_last"
    /\ WaitDone
    /\ ret' = [ret EXCEPT !.remove_hollow_cylinder = wait.result]
    /\ cartesian_constraints' = None
    /\ path_constraints' = ClearedPathConstraints(path_constraints)
    /\ velocity_scaling' = DisableVelocity(entry.velocity)
    /\ acceleration_scaling' = DisableAcceleration(entry.acceleration)
    /\ log' = log \o << Call("clear_path_constraints", ""),
                        Call("set_max_velocity_scaling_factor", "0.8"),
                        Call("set_max_acceleration_scaling_factor", "1") >>
    /\ wait' = NoWait
    /\ mode' = "Idle"
    /\ outcome' = "returned"
    /\ pc' = "idle"
    /\ UNCHANGED <<calls, op, prevOp, known, pending, shutdown, pose, polled,
                   conv, request, plan, planCall, prevPlanCall, entry,
                   timely>>


\* faulty variant: the current pose is put in front of the target
WaypointsWithStart(p, z) == << p, [p EXCEPT !.z = @ + z] >>

\* faulty variant: the depth is subtracted
WaypointsSubtracted(p, z) == << [p EXCEPT !.z = @ - z] >>

\* wpose = copy of the current pose; wpose.position.z += z; waypoints = [wpose]
Waypoints(p, z) == << [p EXCEPT !.z = @ + z] >>

\* where the planned path ends when the planner covers fraction f of it
PathEnd(p, z, f) == [p EXCEPT !.z = @ + (z * f) \div 100]

\* faulty variant: planning also drives the arm to the waypoint
PoseAfterPlanMoved(p, target) == target

\* move_group.plan() and compute_cartesian_path only plan: the arm stays where
\* it is ("We are just planning, not asking move_group to actually move the
\* robot yet"), and the waypoint is a deep copy of the current pose
PoseAfterPlan(p, target) == p

\* plan_probing(z): reading the unset attribute raises AttributeError after
\* move_group.plan(); otherwise the planner is asked and answers with any fraction
PlanProbing ==
    /\ Begin("plan_probing")
    /\ \E z \in Depths :
         /\ planCall' = [made |-> TRUE, z |-> z, from |-> pose,
                         planned |-> cartesian_constraints # Unset]
         /\ pose' = PoseAfterPlan(pose, Waypoints(pose, z)[1])
         /\ IF cartesian_constraints = Unset
            THEN /\ outcome' = "AttributeError"
                 /\ log' = << Call("plan", "") >>
                 /\ UNCHANGED <<request, plan>>
            ELSE /\ outcome' = "returned"
                 /\ log' = << Call("plan", ""), Call("compute_cartesian_path", "") >>
                 /\ request' = [made |-> TRUE, waypoints |-> Waypoints(pose, z),
                                eef_step |-> EefStep,
                                jump_threshold |-> JumpThreshold,
                                path_constraints |-> cartesian_constraints]
                 /\ \E f \in Fractions :
                      plan' = [made |-> TRUE, start |-> pose,
                               end |-> PathEnd(pose, z, f), fraction |-> f]
    /\ prevPlanCall' = IF op = "plan_probing" THEN planCall ELSE NoPlanCall
    /\ pc' = "idle"
    /\ UNCHANGED <<known, pending, shutdown, path_constraints,
                   cartesian_constraints, velocity_scaling, acceleration_scaling,
                   wait, mode,
                   timely>>

\* execute_plan(plan) with the plan last returned: move_group.execute(plan,
\* wait=True) moves the arm along it when it starts at the current pose
ExecutePlan ==
    /\ Begin("execute_plan")
    /\ plan.made
    /\ pose' = IF plan.start = pose THEN plan.end ELSE pose
    /\ log' = << Call("execute", "") >>
    /\ outcome' = "returned"
    /\ pc' = "idle"
    /\ UNCHANGED <<known, pending, shutdown, path_constraints,
                   cartesian_constraints, velocity_scaling, acceleration_scaling,
                   wait, request, plan, planCall, prevPlanCall, mode,
                   timely>>

\* helene.set_speed_scaler(1) of the student script
SetSpeedScaler ==
    /\ Begin("set_speed_scaler")
    /\ velocity_scaling' = FullSpeed
    /\ log' = << Call("set_max_velocity_scaling_factor", "1") >>
    /\ outcome' = "returned"
    /\ pc' = "idle"
    /\ UNCHANGED <<known, pending, shutdown, path_constraints,
                   cartesian_constraints, acceleration_scaling, pose, wait,
                   request, plan, planCall, prevPlanCall, mode,
                   timely>>

\* a call of the wait primitive on its own, with any name, expectation and timeout
WaitForStateUpdate ==
    /\ Begin("wait_for_state_update")
    /\ \E name \in Names, cylinder_is_known \in BOOLEAN, timeout \in 0..MaxWaitTimeout :
         wait' = StartWait(name, cylinder_is_known, timeout)
    /\ log' = <<>>
    /\ outcome' = "running"
    /\ pc' = "wait_for_state_update"
    /\ UNCHANGED <<known, pending, shutdown, path_constraints,
                   cartesian_constraints, velocity_scaling, acceleration_scaling,
                   pose, request, plan, planCall, prevPlanCall, mode,
                   timely>>

WaitForStateUpdateReturn ==
    /\ pc = "wait_for_state_update"
    /\ WaitDone
    /\ wait' = NoWait
    /\ outcome' = "returned"
    /\ pc' = "idle"
    /\ UNCHANGED <<calls, op, prevOp, known, pending, shutdown,
                   path_constraints, cartesian_constraints, velocity_scaling,
                   acceleration_scaling, pose, log, polled, ret, conv, request,
                   plan, planCall, prevPlanCall, entry, mode,
                   timely>>

---------------------------------------------------------------------------
(* The helper once __init__ has returned: the solid cylinder has been added *)
(* and its wait has either seen it or timed out (the result is not used).   *)
(* __init__ never assigns cartesian_constraints; the base class helpy, which *)
(* is not part of this repository, either leaves it unset or sets it to None. *)
(* __init__ sets no scaling either: the factors are the move group's 1 and 1, *)
(* the velocity factor being the one the student script asks for before use. *)
Init ==
    /\ pc = "idle"
    /\ calls = 0
    /\ op = "__init__"
    /\ prevOp = ""
    /\ outcome = "returned"
    /\ \E seen \in BOOLEAN :
         /\ known = IF seen THEN {cylinder_name} ELSE {}
         /\ pending = IF seen THEN <<>> ELSE << Call("add", cylinder_name) >>
         /\ ret = [NoRet EXCEPT !.add_cylinder = IF seen THEN "True" ELSE "False"]
         /\ conv = [NoRet EXCEPT !.add_cylinder = IF seen THEN "True" ELSE "TimedOut"]
         /\ polled = IF seen THEN {cylinder_name} ELSE {}
    /\ shutdown = FALSE
    /\ path_constraints = None
    /\ cartesian_constraints \in {Unset, None}
    /\ velocity_scaling = FullSpeed
    /\ acceleration_scaling = FullSpeed
    /\ pose \in StartPoses
    /\ wait = NoWait
    /\ log = << Call("add_cylinder", cylinder_name) >>
    /\ request = NoRequest
    /\ plan = NoPlan
    /\ planCall = NoPlanCall
    /\ prevPlanCall = NoPlanCall
    /\ entry = [mode |-> "Idle", velocity |-> velocity_scaling,
                acceleration |-> acceleration_scaling,
                path_constraints |-> None,
                prevVelocity |-> velocity_scaling,
                prevAcceleration |-> acceleration_scaling,
                prevOutcome |-> "returned"]
    /\ mode = "Idle"
    /\ timely = (conv.add_cylinder = "True")

Next ==
    \/ EnableProbing
    \/ EnableRemoveCylinder
    \/ EnableRemoveCylinderIssue
    \/ EnableFinish
    \/ DisableProbing
    \/ DisableRemoveHollow
    \/ DisableRemoveHollowLastWait
    \/ DisableFinish
    \/ PlanProbing
    \/ ExecutePlan
    \/ SetSpeedScaler
    \/ WaitForStateUpdate
    \/ WaitForStateUpdateReturn
    \/ WaitPoll
    \/ WaitInterrupted
    \/ SceneApply
    \/ Shutdown

Spec == Init /\ [][Next]_vars

\* the steps of the caller's thread while it is inside a public call
HelperStep ==
    \/ WaitPoll
    \/ WaitInterrupted
    \/ EnableRemoveCylinder
    \/ EnableRemoveCylinderIssue
    \/ EnableFinish
    \/ DisableRemoveHollow
    \/ DisableRemoveHollowLastWait
    \/ DisableFinish
    \/ WaitForStateUpdateReturn

\* the caller's thread keeps running: rospy.sleep returns and the clock has
\* advanced by the poll interval, whatever the scene does
FairSpec == Spec /\ WF_vars(HelperStep)


---------------------------------------------------------------------------
(* Properties *)

Issued(c) == \E i \in 1..Len(log) : log[i] = c

\* enable_probing has returned and the disable_probing that followed it has too
RoundTripDone ==
    /\ pc = "idle"
    /\ op = "disable_probing"
    /\ outcome = "returned"
    /\ prevOp = "enable_probing"
    /\ entry.prevOutcome = "returned"

\* C1: a wait with a timeout t > 0 returns True exactly when one of its polls,
\* taken less than t after the start, saw the expected membership; otherwise
\* it returns False.
C1_WaitTrueIffObservedInBudget ==
    (wait.phase = "done" /\ wait.timeout > 0) =>
        /\ wait.result \in {"True", "False"}
        /\ (wait.result = "True") <=> wait.matched

\* a wait that returned True after at least one sleep
C1_Witness ==
    /\ wait.phase = "done"
    /\ wait.timeout > 0
    /\ wait.elapsed > 0
    /\ wait.result = "True"

\* C2: a wait with timeout 0 polls the known-object set at least once, so it
\* returns True when the scene is already in the expected state at the call.
C2_ZeroTimeoutPollsOnce ==
    (wait.phase = "done" /\ wait.timeout = 0 /\ ~shutdown) =>
        /\ wait.polls >= 1
        /\ wait.atCall => wait.result = "True"

\* C3 as stated: enable_probing then disable_probing leaves the scaling in
\* force before enable_probing, and no constraint on either side.
C3_RoundTripRestoresPreEnableScaling ==
    RoundTripDone =>
        /\ velocity_scaling = entry.prevVelocity
        /\ acceleration_scaling = entry.prevAcceleration
        /\ path_constraints = None
        /\ cartesian_constraints = None

\* C3 amended: enable_probing then disable_probing leaves velocity scaling 0.8
\* and acceleration scaling 1, whatever was in force before, and no constraint
\* on the move group or recorded in the helper.
C3_RoundTripSetsNormalScaling ==
    RoundTripDone =>
        /\ velocity_scaling = NormalVelocity
        /\ acceleration_scaling = NormalAcceleration
        /\ path_constraints = None
        /\ cartesian_constraints = None

\* a round trip that began with a velocity factor other than the one it ends with
C3_Witness ==
    /\ RoundTripDone
    /\ entry.prevVelocity # NormalVelocity
    /\ velocity_scaling = NormalVelocity

\* C4: enable_probing called in Probing is rejected with InvalidTransition: it
\* issues no scene call and no motion call and the state stays Probing.
C4_SecondEnableRejected ==
    (op = "enable_probing" /\ entry.mode = "Probing") =>
        /\ log = <<>>
        /\ outcome = "InvalidTransition"
        /\ mode = "Probing"

\* C5: disable_probing called in Idle is rejected as out of order and changes
\* neither the scene, the constraints nor the scaling.
C5_DisableFromIdleRejected ==
    (op = "disable_probing" /\ entry.mode = "Idle") =>
        /\ log = <<>>
        /\ outcome = "InvalidTransition"
        /\ path_constraints = entry.path_constraints
        /\ velocity_scaling = entry.velocity
        /\ acceleration_scaling = entry.acceleration

\* C6: enable_probing issues the remove call for the solid cylinder only after
\* one of its polls has seen the hollow cylinder as known (stated for runs
\* without shutdown, where a failed wait is a wait that timed out).
C6_SolidRemovedOnlyAfterHollowSeen ==
    (op = "enable_probing" /\ ~shutdown
        /\ Issued(Call("remove_world_object", cylinder_name))) =>
        hollow_cylinder_name \in polled

\* C7: disable_probing issues the remove call for the hollow cylinder only
\* after one of its polls has seen the solid cylinder as known (stated for
\* runs without shutdown, where a failed wait is a wait that timed out).
C7_HollowRemovedOnlyAfterSolidSeen ==
    (op = "disable_probing" /\ ~shutdown
        /\ Issued(Call("remove_world_object", hollow_cylinder_name))) =>
        cylinder_name \in polled

\* what a caller reads as failure: False, or the None of a helper without return
Failure(r) == r \in {"False", "None"}

\* C8: a scene helper whose convergence wait timed out returns failure, and the
\* call it belongs to issues no scene call undoing a request it made.
C8_TimeoutReturnsFailureWithoutRollback ==
    /\ \A h \in DOMAIN ret :
         (conv[h] = "TimedOut" /\ ret[h] # "unset") => Failure(ret[h])
    /\ op = "enable_probing" =>
         /\ ~Issued(Call("remove_world_object", hollow_cylinder_name))
         /\ ~Issued(Call("add_cylinder", cylinder_name))
    /\ op = "disable_probing" =>
         /\ ~Issued(Call("add_mesh", hollow_cylinder_name))
         /\ ~Issued(Call("remove_world_object", cylinder_name))

\* plan_probing has just handed its waypoints to the Cartesian planner
PlannerAsked ==
    /\ op = "plan_probing"
    /\ planCall.planned
    /\ request.made

\* C9: the waypoint list plan_probing(d) hands to the Cartesian planner holds
\* exactly one pose: the current pose with z raised by d, x, y and orientation
\* as they are.
C9_SingleWaypointOffsetByDepth ==
    PlannerAsked =>
        /\ Len(request.waypoints) = 1
        /\ request.waypoints[1].z = planCall.from.z + planCall.z
        /\ request.waypoints[1].x = planCall.from.x
        /\ request.waypoints[1].y = planCall.from.y
        /\ request.waypoints[1].o = planCall.from.o

\* plan_probing(-0.06) from z = 0.30 asked for the single waypoint z = 0.24
C9_Witness ==
    /\ PlannerAsked
    /\ planCall.z = -6
    /\ planCall.from.z = 30
    /\ request.waypoints[1].z = 24

\* plan_probing(z) directly followed by plan_probing(-z), both reaching the planner
BackToBack ==
    /\ PlannerAsked
    /\ prevPlanCall.made
    /\ prevPlanCall.planned
    /\ planCall.z = 0 - prevPlanCall.z

\* C10 as stated: the second of two back-to-back calls plan_probing(z),
\* plan_probing(-z) targets the z the robot had before the first call.
C10_SecondCallTargetsOriginalZ ==
    BackToBack => request.waypoints[1].z = prevPlanCall.from.z

\* C10 amended: with no motion in between both calls start from the same
\* pose, so the second call targets the original z minus z.
C10_SecondCallTargetsOriginalMinusZ ==
    BackToBack =>
        /\ planCall.from = prevPlanCall.from
        /\ request.waypoints[1].z = prevPlanCall.from.z - prevPlanCall.z

\* plan_probing(0.06) then plan_probing(-0.06) from z = 0.30: target 0.24
C10_Witness ==
    /\ BackToBack
    /\ prevPlanCall.z = 6
    /\ prevPlanCall.from.z = 30
    /\ request.waypoints[1].z = 24

\* a step that is a call of plan_probing
PlanProbingStep == calls' = calls + 1 /\ op' = "plan_probing"

\* C11: plan_probing only plans: the step that runs it leaves the probing state,
\* the recorded constraint set and the motion service's path constraints, the
\* velocity and acceleration scaling, the scene's objects (and the requests on
\* their way to it) and the arm's pose as they were.
C11_PlanProbingChangesNothing ==
    [][PlanProbingStep =>
         /\ mode' = mode
         /\ cartesian_constraints' = cartesian_constraints
         /\ path_constraints' = path_constraints
         /\ velocity_scaling' = velocity_scaling
         /\ acceleration_scaling' = acceleration_scaling
         /\ known' = known
         /\ pending' = pending
         /\ pose' = pose]_vars

\* plan_probing has returned a plan while probing, the constraint set in force
C11_Witness ==
    /\ op = "plan_probing"
    /\ outcome = "returned"
    /\ mode = "Probing"
    /\ plan.made
    /\ plan.end # pose
    /\ cartesian_constraints.kind = "Constraints"

\* C12: plan_probing called while no constraint set is recorded, as in the
\* first call after construction, completes normally: the Cartesian planner is
\* asked with no path constraints and a (plan, fraction) pair comes back.
C12_PlanWithoutConstraintsReturnsPlan ==
    (op = "plan_probing" /\ cartesian_constraints.kind # "Constraints") =>
        /\ outcome = "returned"
        /\ planCall.planned
        /\ request.made
        /\ request.path_constraints = None

\* C13: when the reference link and the target link have the same orientation
\* (here both the identity), the relative orientation put into the orientation
\* constraint is exactly (0, 0, 0, 1).
C13_EqualOrientationsGiveIdentity ==
    (op = "enable_probing" /\ pose.o = BaseOrientation) =>
        cartesian_constraints.orientation_constraints[1].orientation = Identity

\* C14: a scene operation reports success when the scene shows its own change
\* within the timeout; for the removal of the hollow cylinder in
\* disable_probing: the hollow cylinder was seen gone in time and the solid
\* cylinder is there, so the removal returns True.
C14_RemoveHollowSucceedsWhenHollowGone ==
    ( /\ op = "disable_probing"
      /\ ~shutdown
      /\ ret.remove_hollow_cylinder # "unset"
      /\ conv.remove_hollow_cylinder = "True"
      /\ ret.add_cylinder = "True"
      /\ known = {cylinder_name}
      /\ pending = <<>> ) =>
        ret.remove_hollow_cylinder = "True"

\* C15: as long as the scene has applied every requested add and remove within
\* the wait that followed it, starting with the solid cylinder known after
\* construction, at least one of the two cylinders is known at every point of
\* every enable_probing and disable_probing, and between them.
C15_SomeCylinderAlwaysKnown ==
    timely => (cylinder_name \in known \/ hollow_cylinder_name \in known)

\* in the middle of the disable_probing that follows a completed enable_probing:
\* the solid cylinder is back, the hollow one is not yet removed
C15_Witness ==
    /\ timely
    /\ op = "disable_probing"
    /\ prevOp = "enable_probing"
    /\ pc = "disable_remove_hollow"
    /\ known = {cylinder_name, hollow_cylinder_name}
    /\ pending # <<>>

\* a convergence wait of enable_probing or disable_probing that had polled at
\* least once has been ended by shutdown
InterruptionDetected ==
    /\ op \in {"enable_probing", "disable_probing"}
    /\ pc # "idle"
    /\ wait.phase = "done"
    /\ wait.polls > 0
    /\ WaitOutcome(wait) = "Shutdown"

\* C16: once shutdown has been detected in a convergence wait of
\* enable_probing or disable_probing, the operation issues no further scene
\* call and no further motion call.
C16_NoCallAfterInterruption ==
    [][InterruptionDetected =>
         /\ log' = log
         /\ (pending' = pending \/ (pending # <<>> /\ pending' = Tail(pending)))
         /\ velocity_scaling' = velocity_scaling
         /\ acceleration_scaling' = acceleration_scaling
         /\ path_constraints' = path_constraints]_vars

\* C17: a call of the wait primitive makes at most timeout / 0.1 + 1 polls and
\* ends, whatever the scene does; so every public call that has begun returns
\* (or is abandoned by the shutdown exception).
C17_WaitTerminates ==
    /\ [](wait.polls <= wait.timeout + 1)
    /\ (wait.phase = "test") ~> (wait.phase # "test")
    /\ (pc # "idle") ~> (pc = "idle")

\* a wait that used its whole budget of 4 s without seeing its state has ended
C17_Witness ==
    /\ wait.phase = "done"
    /\ wait.result = "False"
    /\ ~shutdown
    /\ wait.timeout = DefaultTimeout * TicksPerSecond
    /\ wait.polls = wait.timeout

\* the three aspects of probing
ConstraintActive == cartesian_constraints.kind = "Constraints"

ProbingScaling ==
    velocity_scaling = ProbingVelocity /\ acceleration_scaling = ProbingAcceleration

ProbingGeometry ==
    hollow_cylinder_name \in known /\ cylinder_name \notin known

\* no call is in progress, the last one has returned, and the scene has so
\* far applied every request within the wait that followed it
SettledInTime == pc = "idle" /\ outcome = "returned" /\ timely

\* C18: between operations, after properly alternating completed calls with a
\* scene that applies every request in time, the three aspects agree: after
\* construction none holds; after an enable_probing from Idle the constraint
\* is active, the scaling is 0.01 / 0.1 and only the hollow cylinder is known;
\* after a disable_probing from Probing no constraint is active, the scaling
\* is 0.8 / 1 and only the solid cylinder is known.
C18_AspectsAgreeBetweenOperations ==
    SettledInTime =>
        /\ (op = "__init__") =>
               (~ConstraintActive /\ ~ProbingScaling /\ ~ProbingGeometry)
        /\ (op = "enable_probing" /\ entry.mode = "Idle") =>
               (ConstraintActive /\ ProbingScaling /\ ProbingGeometry)
        /\ (op = "disable_probing" /\ entry.mode = "Probing") =>
               /\ ~ConstraintActive
               /\ path_constraints = None
               /\ velocity_scaling = NormalVelocity
               /\ acceleration_scaling = NormalAcceleration
               /\ known = {cylinder_name}

\* a disable_probing that followed a completed enable_probing has returned
C18_Witness ==
    /\ SettledInTime
    /\ op = "disable_probing"
    /\ entry.mode = "Probing"
    /\ prevOp = "enable_probing"
    /\ pending = <<>>

\* C19: once the recorded constraint set has been written (by enable_probing
\* or disable_probing), it is the move group's path constraints: both are the
\* same constraint set or both are none.
C19_RecordedConstraintsAreActiveOnes ==
    (cartesian_constraints # Unset) => cartesian_constraints = path_constraints

\* enable_probing has run and the recorded set is the active one
C19_Witness ==
    /\ pc = "idle"
    /\ prevOp = "enable_probing"
    /\ op = "disable_probing"
    /\ outcome = "returned"
    /\ cartesian_constraints = None
    /\ path_constraints = None

=============================================================================
